---- MODULE Spec2Model ----
(***************************************************************************)
(* focus-hunter: a focus trap for shadow-DOM-composed user interfaces.     *)
(*                                                                         *)
(* The module models src/exports/focus-hunter.js (class Trap), the         *)
(* tabbability classifier and the tabbable-sequence walker (isTabbable,    *)
(* getTabbableElements, walk, sortByTabIndex) and the active-element       *)
(* resolver (activeElements / deepestActiveElement).                       *)
(*                                                                         *)
(* Two specifications share the module.  Spec is the life of the traps on  *)
(* a fixed host document; the platform's part (what focus() does, the      *)
(* default action of an unprevented Tab) is modelled beside the code that  *)
(* calls it.  TabbableSpec applies the classifier and the walker to        *)
(* documents of the same tree whose attributes are drawn from bounded      *)
(* sets.                                                                   *)
(***************************************************************************)
EXTENDS Integers, Sequences, FiniteSets, TLC

(***************************************************************************)
(* Bounds of the model.                                                    *)
(***************************************************************************)
\* Number of Trap objects the host may construct.
MaxTraps == 2
\* Number of deferred resetFocus() callbacks that may be pending at once.
MaxTimers == 1
\* Number of operations and events after the traps are constructed.
MaxSteps == 4
\* Number of consecutive enumerations of the tabbable sequence of a page.
MaxPasses == 2

(***************************************************************************)
(* The state: the traps and their registry, and the document the           *)
(* classifier and the walker are applied to.                               *)
(***************************************************************************)
VARIABLES
  focus,             \* the element that holds focus (Body when none does)
  traps,             \* the Trap objects constructed so far, by number
  trapStack,         \* window.focusHunter.trapStack, in insertion order
  rootElementStack,  \* window.focusHunter.rootElementStack, in insertion order
  listeners,         \* the traps whose three handlers are attached to document
  timers,            \* the pending setTimeout(() => this.resetFocus()) callbacks
  inserted,          \* history: members of the trap stack, oldest insertion first
  resumed,           \* history: traps that became topmost by the stop() of another
  hist,              \* history: the operation that led to this state
  steps,             \* history: the number of operations and events so far
  page,              \* the attributes and styles of the elements of the document
  enumerated,        \* history: the enumerations of tabbable sequences of the page
  classified         \* history: the element isTabbable() was last called on

vars ==
  <<focus, traps, trapStack, rootElementStack, listeners, timers, inserted, resumed, hist,
    steps, page, enumerated, classified>>

\* What the traps leave alone.
pageVars == <<page, enumerated, classified>>

(***************************************************************************)
(* Values.                                                                 *)
(***************************************************************************)
Null == "null"
Undefined == "undefined"
NoAttr == "(absent)"

\* The tabindex attribute: absent, or present with its value as characters.
Absent == [present |-> FALSE, value |-> <<>>]

Present(value) == [present |-> TRUE, value |-> value]
Body == "body"
Document == "#document"

Range(s) == {s[i] : i \in 1..Len(s)}

Last(s) == s[Len(s)]

\* Seeded fault: a new member is put in front of the others.
SetAddFront(set, x) == IF x \in Range(set) THEN set ELSE <<x>> \o set

\* Set.prototype.add / delete / has on an insertion-ordered Set.
SetAdd(set, x) == IF x \in Range(set) THEN set ELSE Append(set, x)

SetDelete(set, x) == SelectSeq(set, LAMBDA y : y # x)

SetHas(set, x) == x \in Range(set)

\* Index of the first occurrence of x in s, -1 when absent (Array.findIndex).
findIndex(s, x) ==
  IF x \in Range(s) THEN CHOOSE i \in 1..Len(s) : s[i] = x /\ \A j \in 1..(i - 1) : s[j] # x
  ELSE -1

(***************************************************************************)
(* The host document.                                                      *)
(*                                                                         *)
(*   body                                                                  *)
(*     rootA  div                                                          *)
(*       a1   button                                                       *)
(*       vid  video controls                                               *)
(*       a3   button                                                       *)
(*     rootB  div                                                          *)
(*       host custom element, open shadow root sroot                       *)
(*         #shadow-root sroot                                              *)
(*           s0     button                                                 *)
(*           slot   slot (assigned: l1)                                    *)
(*           s1     button                                                 *)
(*         l1   button                    (light child, slotted)           *)
(*     rootE  div                                                          *)
(*       e1   button tabindex="-1" style="display: none"                   *)
(*       e2   button disabled                                              *)
(*     rootC  div                                                          *)
(*       outer  custom element, open shadow root oroot                     *)
(*         #shadow-root oroot                                              *)
(*           inner  custom element, open shadow root iroot                 *)
(*             #shadow-root iroot                                          *)
(*               i1   button                                               *)
(*       chost  custom element, closed shadow root croot                   *)
(*         #shadow-root croot (closed)                                     *)
(*           c1   button                                                   *)
(*       frame  iframe                                                     *)
(***************************************************************************)
El(tag) ==
  [tag |-> tag, tabindex |-> Absent, disabled |-> FALSE, ariaDisabled |-> NoAttr,
   type |-> NoAttr, checked |-> FALSE, display |-> "block", visibility |-> "visible",
   controls |-> FALSE, contenteditable |-> NoAttr, href |-> NoAttr, inert |-> FALSE,
   overflowX |-> "visible", overflowY |-> "visible", overflowingX |-> FALSE,
   overflowingY |-> FALSE]

Dom ==
  [ body  |-> El("body"),
    rootA |-> El("div"),
    a1    |-> El("button"),
    vid   |-> [El("video") EXCEPT !.controls = TRUE],
    a3    |-> El("button"),
    rootB |-> El("div"),
    host  |-> El("my-el"),
    s0    |-> El("button"),
    slot  |-> El("slot"),
    s1    |-> El("button"),
    l1    |-> El("button"),
    rootE |-> El("div"),
    e1    |-> [El("button") EXCEPT !.tabindex = Present(<<"-", "1">>), !.display = "none"],
    e2    |-> [El("button") EXCEPT !.disabled = TRUE],
    rootC |-> El("div"),
    outer |-> El("tab-test-1"),
    inner |-> El("my-modal"),
    i1    |-> El("button"),
    chost |-> El("my-el"),
    c1    |-> El("button"),
    frame |-> El("iframe") ]

Elements == DOMAIN Dom

ShadowRoots == {"sroot", "oroot", "iroot", "croot"}

\* Element.children / ShadowRoot.children, in document order.
children(n) ==
  CASE n = "body"  -> <<"rootA", "rootB", "rootE", "rootC">>
    [] n = "rootA" -> <<"a1", "vid", "a3">>
    [] n = "rootB" -> <<"host">>
    [] n = "host"  -> <<"l1">>
    [] n = "sroot" -> <<"s0", "slot", "s1">>
    [] n = "rootE" -> <<"e1", "e2">>
    [] n = "rootC" -> <<"outer", "chost", "frame">>
    [] n = "oroot" -> <<"inner">>
    [] n = "iroot" -> <<"i1">>
    [] n = "croot" -> <<"c1">>
    [] OTHER       -> <<>>

\* The shadow root attached to an element, its mode and its host.
attachedShadow(el) ==
  CASE el = "host"  -> "sroot"
    [] el = "outer" -> "oroot"
    [] el = "inner" -> "iroot"
    [] el = "chost" -> "croot"
    [] OTHER        -> Null

shadowMode(sr) == IF sr = "croot" THEN "closed" ELSE "open"

shadowHost(sr) ==
  CASE sr = "sroot" -> "host"
    [] sr = "oroot" -> "outer"
    [] sr = "iroot" -> "inner"
    [] sr = "croot" -> "chost"

\* Element.shadowRoot: null for a closed or missing shadow root.
shadowRoot(el) ==
  IF attachedShadow(el) # Null /\ shadowMode(attachedShadow(el)) = "open"
  THEN attachedShadow(el)
  ELSE Null

\* HTMLSlotElement.assignedElements({ flatten: true }).
assignedElements(el) == IF el = "slot" THEN <<"l1">> ELSE <<>>

\* The elements the roots of the traps are chosen from.
Roots == {"rootA", "rootB", "rootE"}

(***************************************************************************)
(* Tree relations of the host document.                                    *)
(***************************************************************************)
Nodes == Elements \cup ShadowRoots

IsElement(n) == n \in Elements

IsSlot(n) == n \in Elements /\ Dom[n].tag = "slot"

\* Node.parentNode, for every node but body.
parentNode(n) == CHOOSE p \in Nodes : n \in Range(children(p))

\* Node.getRootNode(): the document or the shadow root whose tree holds n.
RECURSIVE getRootNode(_)
getRootNode(n) ==
  IF n = Body THEN Document
  ELSE IF n \in ShadowRoots THEN n
  ELSE getRootNode(parentNode(n))

\* Node.getRootNode({ composed: true }): shadow roots are crossed, so for a
\* connected node this is always the document.
RECURSIVE getComposedRootNode(_)
getComposedRootNode(n) ==
  IF getRootNode(n) = Document THEN Document
  ELSE getComposedRootNode(shadowHost(getRootNode(n)))

\* The .host property of a root node: a document has none.
hostOf(rootNode) == IF rootNode \in ShadowRoots THEN shadowHost(rootNode) ELSE Undefined

\* The element itself and its ancestors in the flat tree (a shadow root's
\* parent is its host).
RECURSIVE inclusiveAncestors(_)
inclusiveAncestors(n) ==
  IF n = Body THEN {Body}
  ELSE {n} \cup inclusiveAncestors(IF parentNode(n) \in ShadowRoots
                                    THEN shadowHost(parentNode(n))
                                    ELSE parentNode(n))

\* The flat-tree ancestors of every element, computed once.
Ancestors == [n \in Elements |-> inclusiveAncestors(n)]

\* The element itself and its ancestors in its own tree, up to the document
\* or the shadow root that holds it: what el.closest() looks through.
RECURSIVE inclusiveTreeAncestors(_)
inclusiveTreeAncestors(n) ==
  IF n = Body \/ parentNode(n) \in ShadowRoots THEN {n}
  ELSE {n} \cup inclusiveTreeAncestors(parentNode(n))

TreeAncestors == [n \in Elements |-> inclusiveTreeAncestors(n)]

\* rootElement.matches(':focus-within'), f being the focused element.
focusWithin(rootElement, f) == f # Body /\ rootElement \in Ancestors[f]

\* The elements of the document in flat-tree order (shadow trees entered,
\* open or closed; slots replaced by what is assigned to them).
RECURSIVE flatTree(_), flatTreeAll(_)
flatTree(n) ==
  (IF IsElement(n) THEN <<n>> ELSE <<>>) \o
  (IF IsElement(n) /\ attachedShadow(n) # Null THEN flatTreeAll(children(attachedShadow(n)))
   ELSE IF IsSlot(n) /\ assignedElements(n) # <<>> THEN flatTreeAll(assignedElements(n))
   ELSE flatTreeAll(children(n)))
flatTreeAll(ns) == IF ns = <<>> THEN <<>> ELSE flatTree(Head(ns)) \o flatTreeAll(Tail(ns))

(***************************************************************************)
(* The tabbability classifier and the tabbable-sequence walker.  d is the  *)
(* document: the attributes and computed styles of every element.          *)
(***************************************************************************)
\* A number, or NaN.
NaN == [nan |-> TRUE, n |-> 0]

Num(n) == [nan |-> FALSE, n |-> n]

DigitValue ==
  [c \in {"0", "1", "2", "3", "4", "5", "6", "7", "8", "9"} |->
     CASE c = "0" -> 0 [] c = "1" -> 1 [] c = "2" -> 2 [] c = "3" -> 3 [] c = "4" -> 4
       [] c = "5" -> 5 [] c = "6" -> 6 [] c = "7" -> 7 [] c = "8" -> 8 [] c = "9" -> 9]

RECURSIVE digitsValue(_, _)
digitsValue(chars, acc) ==
  IF chars = <<>> THEN acc ELSE digitsValue(Tail(chars), acc * 10 + DigitValue[Head(chars)])

\* Number(el.getAttribute('tabindex')): null (no attribute) and the empty
\* string convert to 0, an optionally signed run of digits to its value,
\* any other text to NaN.
Number(attribute) ==
  LET digits(chars) == chars # <<>> /\ \A i \in 1..Len(chars) : chars[i] \in DOMAIN DigitValue
      signed(chars) ==
        IF Head(chars) = "-"
        THEN IF digits(Tail(chars)) THEN Num(0 - digitsValue(Tail(chars), 0)) ELSE NaN
        ELSE IF Head(chars) = "+"
        THEN IF digits(Tail(chars)) THEN Num(digitsValue(Tail(chars), 0)) ELSE NaN
        ELSE IF digits(chars) THEN Num(digitsValue(chars, 0)) ELSE NaN
  IN IF ~attribute.present \/ attribute.value = <<>> THEN Num(0) ELSE signed(attribute.value)

\* el.closest("[inert]"): the element or an ancestor in its own tree is inert.
closestInert(d, el) == \E a \in TreeAncestors[el] : d[a].inert

\* isVisible(el): checkVisibility({ checkOpacity: false, checkVisibilityCSS:
\* true }), or its fallback on the computed style.  The documents of the
\* model set display: none and visibility: hidden on the element itself,
\* where the two agree.
isVisible(e) == e.visibility # "hidden" /\ e.display # "none"

\* isOverflowingAndTabbable(el)
isOverflowingAndTabbable(e) ==
  IF e.overflowY = "scroll" \/ e.overflowX = "scroll" THEN TRUE
  ELSE IF e.overflowY # "auto" \/ e.overflowX # "auto" THEN FALSE
  ELSE IF e.overflowingY /\ e.overflowY = "auto" THEN TRUE
  ELSE IF e.overflowingX /\ e.overflowX = "auto" THEN TRUE
  ELSE FALSE

\* Seeded fault: the classifier with the rule that an element with
\* aria-disabled is not tabbable.
isTabbableUnlessAriaDisabled(d, el) ==
  LET rules(e, tabindex, hasTabindex) ==
        IF hasTabindex /\ (tabindex.nan \/ tabindex.n <= -1) THEN FALSE
        ELSE IF e.disabled THEN FALSE
        ELSE IF e.ariaDisabled # NoAttr /\ e.ariaDisabled # "false" THEN FALSE
        ELSE IF closestInert(d, el) THEN FALSE
        ELSE IF e.tag = "input" /\ e.type = "radio" /\ ~e.checked THEN FALSE
        ELSE IF ~isVisible(e) THEN FALSE
        ELSE IF e.tag = "a" /\ e.href \in {NoAttr, ""} THEN FALSE
        ELSE IF e.tag \in {"audio", "video"} /\ e.controls THEN TRUE
        ELSE IF hasTabindex /\ tabindex.n >= 0 THEN TRUE
        ELSE IF e.contenteditable # NoAttr /\ e.contenteditable # "false" THEN TRUE
        ELSE IF e.tag \in {"button", "input", "select", "textarea", "a", "audio", "video",
                           "summary", "iframe", "object", "embed"} THEN TRUE
        ELSE isOverflowingAndTabbable(e)
  IN rules(d[el], Number(d[el].tabindex), d[el].tabindex.present)

\* Seeded fault: the rule for media elements with controls is tried before
\* the rules that exclude an element.
isTabbableControlsFirst(d, el) ==
  LET rules(e, tabindex, hasTabindex) ==
        IF e.tag \in {"audio", "video"} /\ e.controls THEN TRUE
        ELSE IF hasTabindex /\ (tabindex.nan \/ tabindex.n <= -1) THEN FALSE
        ELSE IF e.disabled THEN FALSE
        ELSE IF closestInert(d, el) THEN FALSE
        ELSE IF e.tag = "input" /\ e.type = "radio" /\ ~e.checked THEN FALSE
        ELSE IF ~isVisible(e) THEN FALSE
        ELSE IF e.tag = "a" /\ e.href \in {NoAttr, ""} THEN FALSE
        ELSE IF hasTabindex /\ tabindex.n >= 0 THEN TRUE
        ELSE IF e.contenteditable # NoAttr /\ e.contenteditable # "false" THEN TRUE
        ELSE IF e.tag \in {"button", "input", "select", "textarea", "a", "audio", "video",
                           "summary", "iframe", "object", "embed"} THEN TRUE
        ELSE isOverflowingAndTabbable(e)
  IN rules(d[el], Number(d[el].tabindex), d[el].tabindex.present)

\* isTabbable(el)
isTabbable(d, el) ==
  LET rules(e, tabindex, hasTabindex) ==
        IF hasTabindex /\ (tabindex.nan \/ tabindex.n <= -1) THEN FALSE
        ELSE IF e.disabled THEN FALSE
        ELSE IF closestInert(d, el) THEN FALSE
        ELSE IF e.tag = "input" /\ e.type = "radio" /\ ~e.checked THEN FALSE
        ELSE IF ~isVisible(e) THEN FALSE
        ELSE IF e.tag = "a" /\ e.href \in {NoAttr, ""} THEN FALSE
        ELSE IF e.tag \in {"audio", "video"} /\ e.controls THEN TRUE
        ELSE IF hasTabindex /\ tabindex.n >= 0 THEN TRUE
        ELSE IF e.contenteditable # NoAttr /\ e.contenteditable # "false" THEN TRUE
        ELSE IF e.tag \in {"button", "input", "select", "textarea", "a", "audio", "video",
                           "summary", "iframe", "object", "embed"} THEN TRUE
        ELSE isOverflowingAndTabbable(e)
  IN rules(d[el], Number(d[el].tabindex), d[el].tabindex.present)

\* Seeded fault: every slot is taken for one whose content the walk of the
\* root reaches anyway, so no slot is entered.
rootHasSlotChildrenAlways(slotElement, rootElement) == TRUE

\* rootHasSlotChildren(slotElement, rootElement)
rootHasSlotChildren(slotElement, rootElement) ==
  hostOf(getComposedRootNode(slotElement)) = rootElement

\* The Set tabbableElements (in insertion order, which is the order of the
\* yields) and the WeakMap checkedElements of one call of
\* getTabbableElements().
NewWalk == [tabbableElements |-> <<>>, checkedElements |-> {}]

\* function* walk(el, rootElement, tabbableElements, checkedElements)
RECURSIVE walk(_, _, _, _), walkEach(_, _, _, _)
walk(d, el, rootElement, st) ==
  IF IsElement(el)
  THEN IF d[el].inert \/ closestInert(d, el) THEN st
       ELSE IF el \in st.checkedElements THEN st
       ELSE LET own(s) ==
                  IF ~SetHas(s.tabbableElements, el) /\ isTabbable(d, el)
                  THEN [s EXCEPT !.tabbableElements = Append(s.tabbableElements, el)]
                  ELSE s
                slotted(s) ==
                  IF IsSlot(el) /\ ~rootHasSlotChildren(el, rootElement)
                  THEN walkEach(d, assignedElements(el), rootElement, s)
                  ELSE s
                shadow(s) ==
                  IF shadowRoot(el) # Null /\ shadowMode(shadowRoot(el)) = "open"
                  THEN walk(d, shadowRoot(el), rootElement, s)
                  ELSE s
            IN walkEach(d, children(el), rootElement,
                        shadow(slotted(own([st EXCEPT !.checkedElements =
                                                        st.checkedElements \cup {el}]))))
  ELSE walkEach(d, children(el), rootElement, st)
walkEach(d, els, rootElement, st) ==
  IF els = <<>> THEN st
  ELSE walkEach(d, Tail(els), rootElement, walk(d, Head(els), rootElement, st))

\* Seeded fault: the comparison of an ascending sort.
sortByTabIndexAscending(d, a, b) ==
  LET orZero(number) == IF number.nan THEN 0 ELSE number.n
  IN orZero(Number(d[a].tabindex)) - orZero(Number(d[b].tabindex))

\* sortByTabIndex(a, b): NaN || 0 and 0 || 0 are 0.
sortByTabIndex(d, a, b) ==
  LET orZero(number) == IF number.nan THEN 0 ELSE number.n
  IN orZero(Number(d[b].tabindex)) - orZero(Number(d[a].tabindex))

\* Array.prototype.sort with sortByTabIndex: a stable sort, so an element
\* goes behind every element that does not have to follow it.
RECURSIVE insertSorted(_, _, _)
insertSorted(d, sorted, el) ==
  IF sorted = <<>> THEN <<el>>
  ELSE IF sortByTabIndex(d, Last(sorted), el) > 0
       THEN Append(insertSorted(d, SubSeq(sorted, 1, Len(sorted) - 1), el), Last(sorted))
       ELSE Append(sorted, el)

\* Seeded fault: the elements are left in the order of the traversal.
sortNothing(d, els, sorted) == sorted \o els

RECURSIVE sort(_, _, _)
sort(d, els, sorted) ==
  IF els = <<>> THEN sorted ELSE sort(d, Tail(els), insertSorted(d, sorted, Head(els)))

\* Seeded fault: the Set tabbableElements outlives the call, so an
\* enumeration yields only what the one before it did not.
getTabbableElementsShared(d, root) ==
  LET fresh(before, after) == SubSeq(after, Len(before) + 1, Len(after))
      again(before) ==
        sort(d, fresh(before, walk(d, root, root,
                                   [tabbableElements |-> before,
                                    checkedElements |-> {}]).tabbableElements), <<>>)
  IN again(IF enumerated = <<>> THEN <<>> ELSE Last(enumerated).yielded)

\* getTabbableElements(root), consumed to the end.
getTabbableElements(d, root) ==
  sort(d, walk(d, root, root, NewWalk).tabbableElements, <<>>)

\* getTabbableElements(this.rootElement) for each root of the host document,
\* computed once (the host document does not change).
Walks == [root \in Roots |-> getTabbableElements(Dom, root)]

(***************************************************************************)
(* active-elements.js                                                      *)
(***************************************************************************)
\* The focused element as seen from the tree of `scope` (the document or a
\* shadow root): document.activeElement and ShadowRoot.activeElement.  f is
\* the element that holds focus.
RECURSIVE activeElementOf(_, _)
activeElementOf(scope, f) ==
  IF getRootNode(f) = scope THEN f
  ELSE IF getRootNode(f) = Document THEN Null
  ELSE activeElementOf(scope, shadowHost(getRootNode(f)))

RECURSIVE activeElements(_, _)

\* Seeded fault: a generator without the default value of its parameter.
activeElementsNoDefault(activeElement, f) ==
  IF activeElement = Null \/ activeElement = Undefined THEN <<>>
  ELSE <<activeElement>> \o
       (IF shadowRoot(activeElement) # Null /\ shadowMode(shadowRoot(activeElement)) # "closed"
        THEN activeElements(activeElementOf(shadowRoot(activeElement), f), f)
        ELSE <<>>)

\* Seeded fault: a generator that enters the shadow root of its first element
\* and no further.
activeElementsOneLevel(activeElement, f) ==
  LET inside(el) ==
        IF shadowRoot(el) # Null /\ shadowMode(shadowRoot(el)) # "closed"
           /\ activeElementOf(shadowRoot(el), f) # Null
        THEN <<activeElementOf(shadowRoot(el), f)>>
        ELSE <<>>
      chain(el) == IF el = Null \/ el = Undefined THEN <<>> ELSE <<el>> \o inside(el)
  IN chain(IF activeElement = Undefined THEN activeElementOf(Document, f) ELSE activeElement)

\* function* activeElements(activeElement = document.activeElement), as the
\* sequence it yields.  An argument that is left out or undefined takes the
\* default, the focused element of the document.
activeElements(activeElement, f) ==
  LET chain(el) ==
        IF el = Null \/ el = Undefined THEN <<>>
        ELSE <<el>> \o
             (IF shadowRoot(el) # Null /\ shadowMode(shadowRoot(el)) # "closed"
              THEN activeElements(activeElementOf(shadowRoot(el), f), f)
              ELSE <<>>)
  IN chain(IF activeElement = Undefined THEN activeElementOf(Document, f) ELSE activeElement)

\* The chain of activeElements() for each element that may hold focus,
\* computed once.
ActiveChains == [f \in Elements |-> activeElements(Undefined, f)]

\* Seeded fault: the first element of the chain, shadow roots not entered.
shallowActiveElement(activeElement, f) ==
  LET first(activeEls) == IF activeEls = <<>> THEN Null ELSE Head(activeEls)
  IN first(IF activeElement = Undefined THEN ActiveChains[f]
           ELSE activeElements(activeElement, f))

\* deepestActiveElement(activeElement = document.activeElement): the last
\* value of the chain, null when it yields nothing.
deepestActiveElement(activeElement, f) ==
  LET end(activeEls) == IF activeEls = <<>> THEN Null ELSE Last(activeEls)
  IN end(IF activeElement = Undefined THEN ActiveChains[f]
         ELSE activeElements(activeElement, f))

(***************************************************************************)
(* The platform.                                                           *)
(***************************************************************************)
\* The elements el.focus() makes the focused element.  In this document every
\* element of a root that isTabbable accepts is one of them.
Focusable ==
  {el \in Elements :
     /\ ~Dom[el].disabled
     /\ isVisible(Dom[el])
     /\ \/ Dom[el].tabindex.present /\ ~Number(Dom[el].tabindex).nan
        \/ Dom[el].tag \in {"button", "input", "select", "textarea", "iframe"}
        \/ Dom[el].tag \in {"a", "area"} /\ Dom[el].href # NoAttr
        \/ Dom[el].tag \in {"audio", "video"} /\ Dom[el].controls}

platformFocusable(el) == el \in Focusable

\* The stops of the platform's own sequential (Tab) navigation.
platformTabbable(el) == platformFocusable(el) /\ Number(Dom[el].tabindex).n >= 0

\* An element whose own controls take Tab stops the page cannot see.
hasNativeControls(el) ==
  el \in Elements /\ (Dom[el].tag = "iframe" \/ (Dom[el].tag \in {"audio", "video"} /\ Dom[el].controls))

FlatOrder == flatTree(Body)

\* The element the platform moves focus to on an unprevented Tab (forward)
\* or Shift+Tab (backward) pressed while f holds focus; Body when the
\* navigation leaves the document for the browser's own controls.
sequentialNavigation(f, shiftKey) ==
  LET at == findIndex(FlatOrder, f)
      after == {i \in 1..Len(FlatOrder) : i > at /\ platformTabbable(FlatOrder[i])}
      before == {i \in 1..Len(FlatOrder) :
                   (f = Body \/ i < at) /\ platformTabbable(FlatOrder[i])}
      Min(S) == CHOOSE i \in S : \A j \in S : i <= j
      Max(S) == CHOOSE i \in S : \A j \in S : i >= j
  IN IF ~shiftKey
     THEN IF after = {} THEN Body ELSE FlatOrder[Min(after)]
     ELSE IF before = {} THEN Body ELSE FlatOrder[Max(before)]

NativeNext == [f \in Elements, shiftKey \in BOOLEAN |-> sequentialNavigation(f, shiftKey)]

nativeNext(f, shiftKey) == NativeNext[f, shiftKey]

(***************************************************************************)
(* src/exports/focus-hunter.js: the state.                                 *)
(***************************************************************************)
\* No call of isTabbable() yet.
NoVerdict == [el |-> Null, tabbable |-> FALSE]

TrapIds == 1..Len(traps)

\* No trap: `end = null` in isActive(), the handler of an event no trap handled.
NoTrap == 0

\* hist.at is the element that held focus when the operation's handlers ran;
\* hist.below marks a stop() of a trap that was in the stack under another,
\* hist.restart a start() of the trap such a stop() has just removed.
NoHist ==
  [op |-> "init", trap |-> NoTrap, noop |-> FALSE, threw |-> FALSE, shift |-> FALSE,
   at |-> Body, prevented |-> FALSE, afterMove |-> FALSE, emitted |-> <<>>,
   below |-> FALSE, restart |-> FALSE]

\* The page before any trap exists: any element may hold focus.
Init ==
  /\ focus \in {Body} \cup Focusable
  /\ traps = <<>>
  /\ trapStack = <<>>
  /\ rootElementStack = <<>>
  /\ listeners = <<>>
  /\ timers = <<>>
  /\ inserted = <<>>
  /\ resumed = {}
  /\ hist = NoHist
  /\ steps = 0
  /\ page = Dom
  /\ enumerated = <<>>
  /\ classified = NoVerdict

\* One more operation or event.
Step == steps < MaxSteps /\ steps' = steps + 1 /\ UNCHANGED pageVars

(***************************************************************************)
(* new Trap(options)                                                       *)
(***************************************************************************)
NewTrap(rootElement) ==
  [rootElement |-> rootElement, initialFocus |-> Undefined, currentFocus |-> Undefined,
   tabDirection |-> "forward"]

\* The position of a root in the document.
rootOrder(rootElement) == findIndex(FlatOrder, rootElement)

\* What the constructor, start() and stop() read and write: the traps, the
\* registry window.focusHunter, the listeners of document, the notifications
\* emitted and whether an error was thrown.
Registry ==
  [traps |-> traps, trapStack |-> trapStack, rootElementStack |-> rootElementStack,
   listeners |-> listeners, emitted |-> <<>>, threw |-> FALSE]

\* Seeded fault: the registry is created anew by every construction, before
\* the options are looked at.
constructorResets(rootElement, r) ==
  IF rootElement = Null \/ rootElement = Undefined
  THEN [r EXCEPT !.trapStack = <<>>, !.rootElementStack = <<>>, !.threw = TRUE]
  ELSE [r EXCEPT !.trapStack = <<>>, !.rootElementStack = <<>>,
                 !.traps = Append(r.traps, NewTrap(rootElement))]

\* constructor(options): the throw precedes every assignment; an existing
\* window.focusHunter is kept.
constructor(rootElement, r) ==
  IF rootElement = Null \/ rootElement = Undefined
  THEN [r EXCEPT !.threw = TRUE]
  ELSE [r EXCEPT !.traps = Append(r.traps, NewTrap(rootElement))]

\* The constructor reads nothing an operation or event writes, so the host's
\* constructions are taken first; traps differ only by their roots, so they
\* are numbered in the document order of their roots.
Construct(rootElement) ==
  /\ Len(traps) < MaxTraps
  /\ steps = 0
  /\ hist.threw = FALSE
  /\ rootElement \in Roots /\ traps # <<>> =>
        rootOrder(Last(traps).rootElement) <= rootOrder(rootElement)
  /\ \E r \in {constructor(rootElement, Registry)} :
        /\ traps' = r.traps
        /\ trapStack' = r.trapStack
        /\ rootElementStack' = r.rootElementStack
        /\ hist' = [NoHist EXCEPT !.op = "construct", !.threw = r.threw,
                                  !.trap = IF r.threw THEN NoTrap ELSE Len(r.traps)]
  /\ UNCHANGED <<focus, listeners, timers, inserted, resumed, steps>>
  /\ UNCHANGED pageVars

(***************************************************************************)
(* isActive()                                                              *)
(***************************************************************************)
\* Seeded fault: the loop stops at the first value of the stack.
firstValue(values, end) == IF values = <<>> THEN end ELSE Head(values)

\* The loop over this.trapStack.values() keeps the last value.
RECURSIVE lastValue(_, _)
lastValue(values, end) ==
  IF values = <<>> THEN end ELSE lastValue(Tail(values), Head(values))

isActiveIn(stack, t) == lastValue(stack, NoTrap) = t

isActive(t) == isActiveIn(trapStack, t)

(***************************************************************************)
(* The handlers.  They run to completion on a record w of what they read   *)
(* and write: the focused element, the traps, whether the event's default  *)
(* action was prevented, the pending timers, and whether a TypeError was   *)
(* raised.  The two stacks do not change while a handler runs.             *)
(***************************************************************************)
World(f, ts) ==
  [focus |-> f, traps |-> traps, prevented |-> FALSE, timers |-> ts, threw |-> FALSE]

elementsWithTabbableControls == {"audio", "video", "iframe"}

\* Seeded fault: no element is taken for one with controls of its own.
possiblyHasTabbableChildrenNever(element) == FALSE

\* possiblyHasTabbableChildren(element)
possiblyHasTabbableChildren(element) ==
  Dom[element].tag \in elementsWithTabbableControls \/ Dom[element].controls

RECURSIVE elementFocus(_, _), dispatchFocusIn(_, _), handleFocusIn(_, _), resetFocus(_, _)

\* element.focus(): the platform focuses a focusable element that is not
\* focused yet and dispatches focusin to the listeners of document; calling
\* it on null or undefined is a TypeError.
elementFocus(el, w) ==
  IF el \in {Null, Undefined} THEN [w EXCEPT !.threw = TRUE]
  ELSE IF ~platformFocusable(el) \/ w.focus = el THEN w
  ELSE dispatchFocusIn(listeners, [w EXCEPT !.focus = el])

dispatchFocusIn(ls, w) ==
  IF ls = <<>> THEN w ELSE dispatchFocusIn(Tail(ls), handleFocusIn(Head(ls), w))

\* Seeded fault: a focusin handler that does nothing.
handleFocusInIgnored(t, w) == w

\* handleFocusIn = (_event) => ...
handleFocusIn(t, w) == IF ~isActive(t) THEN w ELSE resetFocus(t, w)

\* Seeded fault: the boundary is the first element whatever the direction.
resetTargetFirst(tabbableElements, tabDirection) ==
  IF tabbableElements = <<>> THEN Undefined ELSE Head(tabbableElements)

\* The boundary resetFocus() refocuses: the first value of the generator,
\* or the last one it yields.
resetTarget(tabbableElements, tabDirection) ==
  IF tabDirection = "forward"
  THEN IF tabbableElements = <<>> THEN Undefined ELSE Head(tabbableElements)
  ELSE IF tabDirection = "backward"
       THEN IF tabbableElements = <<>> THEN Null ELSE Last(tabbableElements)
       ELSE Null

\* Seeded fault: a resetFocus() without the isActive() guard.
resetFocusUnguarded(t, w) ==
  LET refocus(target, w1) ==
        IF target \notin {Null, Undefined}
        THEN elementFocus(target, [w1 EXCEPT !.traps[t].currentFocus = target])
        ELSE w1
      reset(rootElement, w1) ==
        IF focusWithin(rootElement, w.focus) THEN w1
        ELSE refocus(resetTarget(Walks[rootElement],
                                 w.traps[t].tabDirection), w1)
      record(currentFocus) ==
        IF currentFocus # Null THEN [w EXCEPT !.traps[t].currentFocus = currentFocus]
        ELSE w
  IN reset(w.traps[t].rootElement, record(deepestActiveElement(Undefined, w.focus)))

\* resetFocus()
resetFocus(t, w) ==
  IF ~isActive(t) THEN w
  ELSE LET refocus(target, w1) ==
             IF target \notin {Null, Undefined}
             THEN elementFocus(target, [w1 EXCEPT !.traps[t].currentFocus = target])
             ELSE w1
           reset(rootElement, w1) ==
             IF focusWithin(rootElement, w.focus) THEN w1
             ELSE refocus(resetTarget(Walks[rootElement],
                                      w.traps[t].tabDirection), w1)
           record(currentFocus) ==
             IF currentFocus # Null THEN [w EXCEPT !.traps[t].currentFocus = currentFocus]
             ELSE w
       IN reset(w.traps[t].rootElement, record(deepestActiveElement(Undefined, w.focus)))

\* Seeded fault: focus() called without the optional chaining.
focusUnguarded(el, w) == elementFocus(el, w)

\* this.currentFocus?.focus?.(...): nothing is called on null or undefined.
optionalFocus(el, w) == IF el \in {Null, Undefined} THEN w ELSE elementFocus(el, w)

\* Seeded fault: the last element taken for the start.
startOfLast(tabbableElements) ==
  IF tabbableElements = <<>> THEN Undefined ELSE Last(tabbableElements)

\* tabbableElements[0]
startOf(tabbableElements) ==
  IF tabbableElements = <<>> THEN Undefined ELSE Head(tabbableElements)

\* Seeded fault: the index is clamped at the ends instead of wrapping.
stepIndexNoWrap(currentFocusIndex, addition, length) ==
  IF currentFocusIndex + addition > length THEN length
  ELSE IF currentFocusIndex + addition < 1 THEN 1
  ELSE currentFocusIndex + addition

\* The index adjustFocus() steps to (0-based in the source, 1-based here).
stepIndex(currentFocusIndex, addition, length) ==
  IF currentFocusIndex + addition > length THEN 1
  ELSE IF currentFocusIndex + addition < 1 THEN length
  ELSE currentFocusIndex + addition

\* adjustFocus(event)
adjustFocus(t, w) ==
  IF ~isActive(t) THEN w
  ELSE LET focusOn(el, backward) ==
             IF backward THEN w
             ELSE optionalFocus(el, [w EXCEPT !.traps[t].currentFocus = el,
                                              !.prevented = TRUE])
           step(tabbableElements, currentFocusIndex, addition) ==
             IF currentFocusIndex = -1 THEN focusOn(startOf(tabbableElements), FALSE)
             ELSE focusOn(tabbableElements[
                            stepIndex(currentFocusIndex, addition, Len(tabbableElements))],
                          w.traps[t].tabDirection = "backward")
           adjust(currentFocus, tabbableElements) ==
             IF currentFocus # Null /\ possiblyHasTabbableChildren(currentFocus) THEN w
             ELSE step(tabbableElements, findIndex(tabbableElements, currentFocus),
                       IF w.traps[t].tabDirection = "forward" THEN 1 ELSE -1)
       IN adjust(deepestActiveElement(Undefined, w.focus), Walks[w.traps[t].rootElement])

\* The entry setTimeout(() => this.resetFocus()) queues; shift is history:
\* the modifier of the key-down that queued it.
Timer(t, shiftKey) == [trap |-> t, shift |-> shiftKey]

\* Seeded fault: a key-down handler without the isActive() guard.
handleKeyDownUnguarded(t, key, shiftKey, w) ==
  IF key # "Tab" THEN w
  ELSE LET defer(w2) == [w2 EXCEPT !.timers = Append(w2.timers, Timer(t, shiftKey))]
       IN defer(adjustFocus(t, [w EXCEPT !.traps[t].tabDirection =
                                           IF shiftKey THEN "backward" ELSE "forward"]))

\* handleKeyDown = (event) => ...
handleKeyDown(t, key, shiftKey, w) ==
  IF key # "Tab" THEN w
  ELSE IF ~isActive(t) THEN w
  ELSE LET defer(w2) ==
             IF w2.threw THEN w2
             ELSE [w2 EXCEPT !.timers = Append(w2.timers, Timer(t, shiftKey))]
       IN defer(adjustFocus(t, [w EXCEPT !.traps[t].tabDirection =
                                           IF shiftKey THEN "backward" ELSE "forward"]))

RECURSIVE dispatchKeyDown(_, _, _, _)
dispatchKeyDown(ls, key, shiftKey, w) ==
  IF ls = <<>> THEN w
  ELSE dispatchKeyDown(Tail(ls), key, shiftKey, handleKeyDown(Head(ls), key, shiftKey, w))

\* handleKeyUp = (_event) => ...
handleKeyUp(t, w) == [w EXCEPT !.traps[t].tabDirection = "forward"]

RECURSIVE dispatchKeyUp(_, _)
dispatchKeyUp(ls, w) ==
  IF ls = <<>> THEN w ELSE dispatchKeyUp(Tail(ls), handleKeyUp(Head(ls), w))

\* The default action of a Tab key-down: nothing when a handler prevented
\* it, else the platform moves focus itself.  inner: the focused element has
\* controls of its own and the platform moves between them, so the element
\* keeps focus.
defaultAction(shiftKey, inner, w) ==
  LET moveTo(to) ==
        IF to = Body THEN [w EXCEPT !.focus = Body]
        ELSE IF to = w.focus THEN w
        ELSE dispatchFocusIn(listeners, [w EXCEPT !.focus = to])
  IN IF w.prevented THEN w
     ELSE IF inner /\ hasNativeControls(w.focus) THEN w
     ELSE moveTo(nativeNext(w.focus, shiftKey))

\* The trap that handles an event now: the listener that is active.
Handler == IF trapStack # <<>> /\ Last(trapStack) \in Range(listeners) THEN Last(trapStack) ELSE NoTrap

(***************************************************************************)
(* start() and stop()                                                      *)
(***************************************************************************)
\* Seeded fault: a stop() that empties the trap stack.
stopClears(t, r) ==
  [r EXCEPT !.trapStack = <<>>,
            !.rootElementStack = SetDelete(r.rootElementStack, r.traps[t].rootElement),
            !.traps[t].currentFocus = Undefined,
            !.emitted = Append(r.emitted, "focus-trap-end"),
            !.listeners = SetDelete(r.listeners, t),
            !.traps[t].initialFocus = Undefined]

\* Seeded fault: a stop() that leaves the root in the root-element stack.
stopKeepsRoot(t, r) ==
  [r EXCEPT !.trapStack = SetDelete(r.trapStack, t),
            !.traps[t].currentFocus = Undefined,
            !.emitted = Append(r.emitted, "focus-trap-end"),
            !.listeners = SetDelete(r.listeners, t),
            !.traps[t].initialFocus = Undefined]

\* Seeded fault: a stop() that takes the topmost trap off the stack.
stopPops(t, r) ==
  [r EXCEPT !.trapStack = SubSeq(r.trapStack, 1, Len(r.trapStack) - 1),
            !.rootElementStack = SetDelete(r.rootElementStack, r.traps[t].rootElement),
            !.traps[t].currentFocus = Undefined,
            !.emitted = Append(r.emitted, "focus-trap-end"),
            !.listeners = SetDelete(r.listeners, t),
            !.traps[t].initialFocus = Undefined]

\* stop()
stop(t, r) ==
  [r EXCEPT !.trapStack = SetDelete(r.trapStack, t),
            !.rootElementStack = SetDelete(r.rootElementStack, r.traps[t].rootElement),
            !.traps[t].currentFocus = Undefined,
            !.emitted = Append(r.emitted, "focus-trap-end"),
            !.listeners = SetDelete(r.listeners, t),
            !.traps[t].initialFocus = Undefined]

\* Seeded fault: only the root-element stack is consulted.
startReturnsByRoot(t, r) == SetHas(r.rootElementStack, r.traps[t].rootElement)

\* Whether start() returns at once.
startReturns(t, r) ==
  SetHas(r.trapStack, t) \/ SetHas(r.rootElementStack, r.traps[t].rootElement)

\* Seeded fault: a start() that emits its notification before it enters the
\* stacks.
startNotifiesFirst(t, stopsInListener, r) ==
  IF startReturns(t, r) THEN r
  ELSE LET snapshot(added, currentlyFocusedEl) ==
             [added EXCEPT !.listeners = SetAdd(added.listeners, t),
                           !.traps[t].initialFocus = currentlyFocusedEl,
                           !.traps[t].currentFocus = currentlyFocusedEl]
           add(notified) ==
             [notified EXCEPT !.trapStack = SetAdd(notified.trapStack, t),
                              !.rootElementStack =
                                 SetAdd(notified.rootElementStack, r.traps[t].rootElement)]
           notify(emitted) == IF stopsInListener THEN stop(t, emitted) ELSE emitted
       IN snapshot(add(notify([r EXCEPT !.emitted = Append(r.emitted, "focus-trap-start")])),
                   deepestActiveElement(Undefined, focus))

\* Seeded fault: a start() that keeps the trap stack in the order of
\* construction.
startInConstructionOrder(t, stopsInListener, r) ==
  IF startReturns(t, r) THEN r
  ELSE LET snapshot(notified, currentlyFocusedEl) ==
             [notified EXCEPT !.listeners = SetAdd(notified.listeners, t),
                              !.traps[t].initialFocus = currentlyFocusedEl,
                              !.traps[t].currentFocus = currentlyFocusedEl]
           notify(added) == IF stopsInListener THEN stop(t, added) ELSE added
       IN snapshot(notify([r EXCEPT !.trapStack =
                                       SelectSeq(r.trapStack, LAMBDA u : u < t) \o <<t>>
                                         \o SelectSeq(r.trapStack, LAMBDA u : u > t),
                                    !.rootElementStack =
                                       SetAdd(r.rootElementStack, r.traps[t].rootElement),
                                    !.emitted = Append(r.emitted, "focus-trap-start")]),
                   deepestActiveElement(Undefined, focus))

\* start().  stopsInListener: a listener of the 'focus-trap-start'
\* notification calls this trap's stop() while start() is still running.
start(t, stopsInListener, r) ==
  IF startReturns(t, r) THEN r
  ELSE LET snapshot(notified, currentlyFocusedEl) ==
             [notified EXCEPT !.listeners = SetAdd(notified.listeners, t),
                              !.traps[t].initialFocus = currentlyFocusedEl,
                              !.traps[t].currentFocus = currentlyFocusedEl]
           notify(added) == IF stopsInListener THEN stop(t, added) ELSE added
       IN snapshot(notify([r EXCEPT !.trapStack = SetAdd(r.trapStack, t),
                                    !.rootElementStack =
                                       SetAdd(r.rootElementStack, r.traps[t].rootElement),
                                    !.emitted = Append(r.emitted, "focus-trap-start")]),
                   deepestActiveElement(Undefined, focus))

Start(t, stopsInListener) ==
  \E r \in {start(t, stopsInListener, Registry)}, noop \in {startReturns(t, Registry)} :
     /\ Step
     /\ traps' = r.traps
     /\ trapStack' = r.trapStack
     /\ rootElementStack' = r.rootElementStack
     /\ listeners' = r.listeners
     /\ inserted' = IF noop THEN inserted
                    ELSE IF stopsInListener THEN SetDelete(inserted, t)
                    ELSE Append(SetDelete(inserted, t), t)
     /\ resumed' = IF noop THEN resumed ELSE {}
     /\ hist' = [NoHist EXCEPT !.op = "start", !.trap = t, !.noop = noop,
                               !.at = focus, !.emitted = r.emitted,
                               !.restart = (hist.op = "stop" /\ hist.trap = t /\ hist.below)]
     /\ UNCHANGED <<focus, timers>>

Stop(t) ==
  \E r \in {stop(t, Registry)}, wasTop \in {trapStack # <<>> /\ Last(trapStack) = t} :
     /\ Step
     /\ traps' = r.traps
     /\ trapStack' = r.trapStack
     /\ rootElementStack' = r.rootElementStack
     /\ listeners' = r.listeners
     /\ inserted' = SetDelete(inserted, t)
     /\ resumed' = IF wasTop /\ r.trapStack # <<>> THEN {Last(r.trapStack)}
                   ELSE resumed \ {t}
     /\ hist' = [NoHist EXCEPT !.op = "stop", !.trap = t, !.noop = ~SetHas(trapStack, t),
                               !.emitted = r.emitted,
                               !.below = (SetHas(trapStack, t) /\ ~wasTop)]
     /\ UNCHANGED <<focus, timers>>

(***************************************************************************)
(* Events.                                                                 *)
(***************************************************************************)
\* A Tab key-down reaches document: the handlers, then the default action.
KeyDown(shiftKey, inner) ==
  /\ Step
  /\ Handler # NoTrap => Len(timers) < MaxTimers
  /\ inner => hasNativeControls(focus)
  /\ \E w \in {defaultAction(shiftKey, inner,
                  dispatchKeyDown(listeners, "Tab", shiftKey, World(focus, timers)))} :
        /\ focus' = w.focus
        /\ traps' = w.traps
        /\ timers' = w.timers
        /\ hist' = [NoHist EXCEPT !.op = "keydown", !.trap = Handler, !.shift = shiftKey,
                                  !.at = focus,
                                  !.prevented = w.prevented, !.threw = w.threw,
                                  !.afterMove = (hist.op = "focusin")]
  /\ UNCHANGED <<trapStack, rootElementStack, listeners, inserted, resumed>>

\* A key-down of another key: every handler returns at once.
KeyDownOther ==
  /\ Step
  /\ \E w \in {dispatchKeyDown(listeners, "Shift", FALSE, World(focus, timers))} :
        /\ focus' = w.focus
        /\ traps' = w.traps
        /\ timers' = w.timers
  /\ hist' = [NoHist EXCEPT !.op = "key"]
  /\ UNCHANGED <<trapStack, rootElementStack, listeners, inserted, resumed>>

\* A key-up of any key reaches document.
KeyUp ==
  /\ Step
  /\ \E w \in {dispatchKeyUp(listeners, World(focus, timers))} : traps' = w.traps
  /\ hist' = [NoHist EXCEPT !.op = "keyup"]
  /\ UNCHANGED <<focus, trapStack, rootElementStack, listeners, timers, inserted, resumed>>

\* Focus moves to el from outside the trap's code (a script's el.focus(), a
\* click): el is focused and focusin reaches document.
FocusIn(el) ==
  /\ Step
  /\ platformFocusable(el)
  /\ el # focus
  /\ \E w \in {elementFocus(el, World(focus, timers))} :
        /\ focus' = w.focus
        /\ traps' = w.traps
        /\ timers' = w.timers
        /\ hist' = [NoHist EXCEPT !.op = "focusin", !.trap = Handler, !.at = el,
                                  !.threw = w.threw]
  /\ UNCHANGED <<trapStack, rootElementStack, listeners, inserted, resumed>>

\* The focused element loses focus to nothing: no focusin is dispatched.
Blur ==
  /\ Step
  /\ focus # Body
  /\ focus' = Body
  /\ hist' = [NoHist EXCEPT !.op = "blur"]
  /\ UNCHANGED <<traps, trapStack, rootElementStack, listeners, timers, inserted, resumed>>

\* The oldest pending timer fires: () => this.resetFocus()
TimerFires ==
  /\ Step
  /\ timers # <<>>
  /\ \E timer \in {Head(timers)} :
     \E w \in {resetFocus(timer.trap, World(focus, Tail(timers)))} :
        /\ focus' = w.focus
        /\ traps' = w.traps
        /\ timers' = w.timers
        /\ hist' = [NoHist EXCEPT !.op = "timer", !.trap = timer.trap,
                                  !.noop = ~isActive(timer.trap), !.shift = timer.shift,
                                  !.at = focus, !.threw = w.threw]
  /\ UNCHANGED <<trapStack, rootElementStack, listeners, inserted, resumed>>

Next ==
  \/ \E rootElement \in Roots \cup {Null, Undefined} : Construct(rootElement)
  \/ \E t \in TrapIds, stopsInListener \in BOOLEAN : Start(t, stopsInListener)
  \/ \E t \in TrapIds : Stop(t)
  \/ \E shiftKey \in BOOLEAN, inner \in BOOLEAN : KeyDown(shiftKey, inner)
  \/ KeyDownOther
  \/ KeyUp
  \/ \E el \in Elements : FocusIn(el)
  \/ Blur
  \/ TimerFires

Spec == Init /\ [][Next]_vars

(***************************************************************************)
(* The classifier and the walker on documents drawn from bounded sets.     *)
(* The tree is that of the host document; the attributes and styles of its *)
(* elements vary.                                                          *)
(***************************************************************************)
\* What the classifier and the walker leave alone.
trapVars ==
  <<focus, traps, trapStack, rootElementStack, listeners, timers, inserted, resumed, hist,
    steps>>

\* The values of the tabindex attribute: none, "-1", "0", "1", "2", "3", "x".
TabindexValues ==
  {Absent, Present(<<"-", "1">>), Present(<<"0">>), Present(<<"1">>), Present(<<"2">>),
   Present(<<"3">>), Present(<<"x">>)}

\* Documents whose first root holds three buttons with any tabindex values.
TabindexPages ==
  {[Dom EXCEPT !["a1"] = [El("button") EXCEPT !.tabindex = i],
               !["vid"] = [El("button") EXCEPT !.tabindex = j],
               !["a3"] = [El("button") EXCEPT !.tabindex = k]] :
     i \in TabindexValues, j \in TabindexValues, k \in TabindexValues}

\* Documents with the inert attribute on any of the elements around the
\* component: its container, its host, its slot, the slotted element and an
\* element of its shadow tree.
InertPages ==
  {[el \in Elements |-> [Dom[el] EXCEPT !.inert = (el \in inert)]] :
     inert \in SUBSET {"rootB", "host", "slot", "l1", "s1"}}

\* What else the classifier reads, one at a time.
Conditions ==
  {"none", "disabled", "display: none", "visibility: hidden", "contenteditable",
   "radio", "overflow: scroll", "overflow: auto"}

withCondition(e, condition) ==
  CASE condition = "disabled" -> [e EXCEPT !.disabled = TRUE]
    [] condition = "display: none" -> [e EXCEPT !.display = "none"]
    [] condition = "visibility: hidden" -> [e EXCEPT !.visibility = "hidden"]
    [] condition = "contenteditable" -> [e EXCEPT !.contenteditable = "true"]
    [] condition = "radio" -> [e EXCEPT !.type = "radio"]
    [] condition = "overflow: scroll" -> [e EXCEPT !.overflowY = "scroll"]
    [] condition = "overflow: auto" ->
         [e EXCEPT !.overflowX = "auto", !.overflowY = "auto", !.overflowingY = TRUE]
    [] OTHER -> e

\* Documents whose first element is an anchor, an area, a button, a div or
\* an input with or without href, tabindex and aria-disabled.
ClassifierPages ==
  {[Dom EXCEPT !["a1"] = withCondition([El(tag) EXCEPT !.href = href, !.tabindex = tabindex,
                                                        !.ariaDisabled = ariaDisabled],
                                       condition)] :
     tag \in {"a", "area", "button", "div", "input"},
     href \in {NoAttr, "", "/"},
     tabindex \in {Absent, Present(<<"0">>)},
     ariaDisabled \in {NoAttr, "true", "false"},
     condition \in Conditions}

\* What makes the classifier reject an element before it looks at anything
\* that could make it accept one.
Exclusions ==
  {"tabindex -1", "tabindex x", "disabled", "inert", "inert ancestor", "radio",
   "display: none", "visibility: hidden"}

withExclusion(e, exclusion) ==
  CASE exclusion = "tabindex -1" -> [e EXCEPT !.tabindex = Present(<<"-", "1">>)]
    [] exclusion = "tabindex x" -> [e EXCEPT !.tabindex = Present(<<"x">>)]
    [] exclusion = "disabled" -> [e EXCEPT !.disabled = TRUE]
    [] exclusion = "inert" -> [e EXCEPT !.inert = TRUE]
    [] exclusion = "radio" -> [e EXCEPT !.tag = "input", !.type = "radio"]
    [] exclusion = "display: none" -> [e EXCEPT !.display = "none"]
    [] exclusion = "visibility: hidden" -> [e EXCEPT !.visibility = "hidden"]
    [] OTHER -> e

\* Documents whose first element has one of the exclusions (on itself or, for
\* inert, on its parent) together with any tag, controls, contenteditable,
\* href and overflow.
PrecedencePages ==
  {[Dom EXCEPT !["a1"] = withExclusion([El(tag) EXCEPT !.controls = controls,
                                                      !.contenteditable = contenteditable,
                                                      !.href = href,
                                                      !.overflowY = overflowY],
                                       exclusion),
               !["rootA"] = [El("div") EXCEPT !.inert = (exclusion = "inert ancestor")]] :
     tag \in {"video", "button", "a", "input", "div"},
     controls \in BOOLEAN,
     contenteditable \in {NoAttr, "true"},
     href \in {NoAttr, "/"},
     overflowY \in {"visible", "scroll"},
     exclusion \in Exclusions}

\* The computed values of overflow-x and overflow-y: visible on one axis
\* computes to auto when the other axis is not visible.
OverflowValues ==
  {<<"visible", "visible">>} \cup ({"hidden", "scroll", "auto"} \X {"hidden", "scroll", "auto"})

\* Documents whose first element is a div with any computed overflow, its
\* content overflowing the box or not on either axis.
OverflowPages ==
  {[Dom EXCEPT !["a1"] = [El("div") EXCEPT !.overflowX = overflow[1],
                                          !.overflowY = overflow[2],
                                          !.overflowingX = overflowingX,
                                          !.overflowingY = overflowingY]] :
     overflow \in OverflowValues, overflowingX \in BOOLEAN, overflowingY \in BOOLEAN}

Pages == TabindexPages \cup InertPages \cup ClassifierPages \cup PrecedencePages \cup OverflowPages

\* The roots the walker is started on: two containers, the host of the
\* component and its shadow root.
TabRoots == {"rootA", "rootB", "host", "sroot"}

\* The elements a script of the page disables.
MutableElements == {"a3"}

TabbableInit ==
  /\ focus = Body
  /\ traps = <<>>
  /\ trapStack = <<>>
  /\ rootElementStack = <<>>
  /\ listeners = <<>>
  /\ timers = <<>>
  /\ inserted = <<>>
  /\ resumed = {}
  /\ hist = NoHist
  /\ steps = 0
  /\ page \in Pages
  /\ enumerated = <<>>
  /\ classified = NoVerdict

\* [...getTabbableElements(root)]: one more enumeration of the page.
Enumerate(root) ==
  /\ Len(enumerated) < MaxPasses
  /\ classified = NoVerdict
  /\ \E yielded \in {getTabbableElements(page, root)} :
        enumerated' = Append(enumerated, [root |-> root, yielded |-> yielded])
  /\ UNCHANGED <<page, classified>>
  /\ UNCHANGED trapVars

\* isTabbable(el)
Classify(el) ==
  /\ enumerated = <<>>
  /\ classified = NoVerdict
  /\ \E tabbable \in {isTabbable(page, el)} :
        classified' = [el |-> el, tabbable |-> tabbable]
  /\ UNCHANGED <<page, enumerated>>
  /\ UNCHANGED trapVars

\* The document changes: a script disables an element.  The enumerations
\* recorded are those of the document as it is.
SetDisabled(el) ==
  /\ enumerated # <<>>
  /\ ~page[el].disabled
  /\ page' = [page EXCEPT ![el].disabled = TRUE]
  /\ enumerated' = <<>>
  /\ UNCHANGED classified
  /\ UNCHANGED trapVars

TabbableNext ==
  \/ \E root \in TabRoots : Enumerate(root)
  \/ \E el \in Elements : Classify(el)
  \/ \E el \in MutableElements : SetDisabled(el)

TabbableSpec == TabbableInit /\ [][TabbableNext]_vars

(***************************************************************************)
(* Properties.                                                             *)
(*                                                                         *)
(* hist describes the operation that led to the state: hist.trap is the    *)
(* trap that handled the event (NoTrap when none did) and hist.at the      *)
(* element that held focus when its handlers started.                      *)
(***************************************************************************)
\* The tabbable sequence of the root of trap t.
sequenceOf(t) == Walks[traps[t].rootElement]

\* The active trap handled the Tab key-down that led to this state.
HandledTab == hist.op = "keydown" /\ hist.trap # NoTrap

\* (i + d) mod n on the 1-based indices of a sequence of length n.
wrapIndex(i, d, n) == ((i - 1 + d + n) % n) + 1

\* C1: while a trap is topmost and its root has a tabbable element, a
\* focus-in event and the deferred re-validation pass of a Tab or Shift+Tab
\* key-down each end with the deepest focused element inside the trap's root.
C1_FocusStaysInRoot ==
  (/\ hist.op \in {"focusin", "timer"}
   /\ hist.trap # NoTrap
   /\ isActive(hist.trap)
   /\ sequenceOf(hist.trap) # <<>>)
  => focusWithin(traps[hist.trap].rootElement, deepestActiveElement(Undefined, focus))

\* The deferred pass of a Shift+Tab found focus outside the root and pulled
\* it back in.
C1_Witness ==
  /\ hist.op = "timer" /\ hist.shift
  /\ hist.trap # NoTrap /\ isActive(hist.trap)
  /\ ~focusWithin(traps[hist.trap].rootElement, hist.at)
  /\ focusWithin(traps[hist.trap].rootElement, focus)

\* C2 (as stated): the trap stack never holds two traps with the same
\* rootElement, and a start() on a trap whose root another trap of the stack
\* guards changes nothing and leaves that trap inactive.
C2_OneTrapPerRoot ==
  /\ \A i, j \in 1..Len(trapStack) :
        i # j => traps[trapStack[i]].rootElement # traps[trapStack[j]].rootElement
  /\ (hist.op = "start" /\ ~hist.noop) =>
        \A i \in 1..Len(trapStack) :
           trapStack[i] # hist.trap =>
              traps[trapStack[i]].rootElement # traps[hist.trap].rootElement

\* C3: isActive() is true exactly of the most recently inserted member of
\* the trap stack, so exactly one trap is active when the stack has members
\* and none when it is empty.
C3_ActiveIsLastInserted ==
  /\ \A t \in TrapIds : isActive(t) <=> (inserted # <<>> /\ t = Last(inserted))
  /\ Cardinality({t \in TrapIds : isActive(t)}) = (IF trapStack = <<>> THEN 0 ELSE 1)
  /\ Range(inserted) = Range(trapStack)

\* The trap constructed first was started last: it is the active one, the
\* other is not.
C3_Witness ==
  /\ Len(trapStack) = 2
  /\ trapStack[2] < trapStack[1]
  /\ isActive(trapStack[2])
  /\ ~isActive(trapStack[1])

\* C4: with several traps started, a Tab key-down or focus-in event is
\* handled by the topmost trap only (no other trap's fields change, the
\* deferred pass is queued for the topmost trap); stop() of the topmost trap
\* makes the trap below it active with its fields and listeners as they
\* were; and a Tab handled by a trap resumed this way navigates inside that
\* trap's root (focus starting in the root or on an element the trap does
\* not cede to).
C4_Step ==
  /\ (hist'.op \in {"keydown", "focusin"} /\ trapStack # <<>>) =>
        /\ hist'.trap = Last(trapStack)
        /\ \A t \in TrapIds \ {Last(trapStack)} : traps'[t] = traps[t]
        /\ \A i \in 1..Len(timers') :
              i > Len(timers) => timers'[i].trap = Last(trapStack)
  /\ (hist'.op = "stop" /\ Len(trapStack) >= 2 /\ hist'.trap = Last(trapStack)) =>
        /\ isActiveIn(trapStack', trapStack[Len(trapStack) - 1])
        /\ traps'[trapStack[Len(trapStack) - 1]] = traps[trapStack[Len(trapStack) - 1]]
        /\ trapStack[Len(trapStack) - 1] \in Range(listeners')
        /\ resumed' = {trapStack[Len(trapStack) - 1]}
  /\ (/\ hist'.op = "keydown" /\ ~hist'.shift
      /\ hist'.trap # NoTrap /\ hist'.trap \in resumed
      /\ sequenceOf(hist'.trap) # <<>>
      /\ \/ focusWithin(traps[hist'.trap].rootElement, focus)
         \/ ~possiblyHasTabbableChildren(focus)) =>
        focusWithin(traps[hist'.trap].rootElement, focus')

C4_StackedTraps == [][C4_Step]_vars

\* Two traps on distinct roots; the one started first was resumed by the
\* stop() of the other and its Tab brought focus from outside into its root.
C4_Witness ==
  /\ HandledTab /\ ~hist.shift /\ hist.prevented
  /\ hist.trap \in resumed
  /\ Len(traps) = 2 /\ traps[1].rootElement # traps[2].rootElement
  /\ ~focusWithin(traps[hist.trap].rootElement, hist.at)
  /\ focus \in Range(sequenceOf(hist.trap))

\* C5 (as stated): a Tab key-down without Shift handled by the active trap
\* while the deepest focused element is at index i of the tabbable sequence
\* moves focus to index (i + 1) mod n.
C5_Original ==
  (HandledTab /\ ~hist.shift /\ deepestActiveElement(Undefined, hist.at) \in Range(sequenceOf(hist.trap)))
  => focus = sequenceOf(hist.trap)[
                wrapIndex(findIndex(sequenceOf(hist.trap), deepestActiveElement(Undefined, hist.at)),
                          1, Len(sequenceOf(hist.trap)))]

\* C5 (amended): the same, for a focused element that is not an audio, video
\* or iframe element and carries no controls attribute; the default action
\* is prevented and currentFocus is the element focused.
C5_ForwardTab ==
  (/\ HandledTab /\ ~hist.shift
   /\ deepestActiveElement(Undefined, hist.at) \in Range(sequenceOf(hist.trap))
   /\ ~possiblyHasTabbableChildren(deepestActiveElement(Undefined, hist.at)))
  => /\ focus = sequenceOf(hist.trap)[
                   wrapIndex(findIndex(sequenceOf(hist.trap), deepestActiveElement(Undefined, hist.at)),
                             1, Len(sequenceOf(hist.trap)))]
     /\ traps[hist.trap].currentFocus = focus
     /\ hist.prevented

\* Tab on the last element of a sequence of several wrapped to the first.
C5_Witness ==
  /\ HandledTab /\ ~hist.shift
  /\ Len(sequenceOf(hist.trap)) >= 2
  /\ hist.at = Last(sequenceOf(hist.trap))
  /\ ~possiblyHasTabbableChildren(hist.at)
  /\ focus = Head(sequenceOf(hist.trap))

\* C6 (as stated): a Tab key-down with Shift handled by the active trap
\* while the deepest focused element is at index i of the tabbable sequence
\* (an element the trap does not cede to) moves focus to index (i - 1) mod n.
C6_Original ==
  (/\ HandledTab /\ hist.shift
   /\ deepestActiveElement(Undefined, hist.at) \in Range(sequenceOf(hist.trap))
   /\ ~possiblyHasTabbableChildren(deepestActiveElement(Undefined, hist.at)))
  => focus = sequenceOf(hist.trap)[
                wrapIndex(findIndex(sequenceOf(hist.trap), deepestActiveElement(Undefined, hist.at)),
                          -1, Len(sequenceOf(hist.trap)))]

\* C7 (as stated): after focus was moved from outside the trap's code to the
\* element at index j of the active trap's sequence (an element the trap
\* does not cede to), the next Tab moves focus to index j + 1 and the next
\* Shift+Tab to index j - 1, with wrapping.
C7_Original ==
  (/\ HandledTab /\ hist.afterMove
   /\ deepestActiveElement(Undefined, hist.at) \in Range(sequenceOf(hist.trap))
   /\ ~possiblyHasTabbableChildren(deepestActiveElement(Undefined, hist.at)))
  => focus = sequenceOf(hist.trap)[
                wrapIndex(findIndex(sequenceOf(hist.trap), deepestActiveElement(Undefined, hist.at)),
                          IF hist.shift THEN -1 ELSE 1, Len(sequenceOf(hist.trap)))]

\* C8 (as stated): when the active trap handles a Tab key-down and the
\* deepest focused element is not in the root's tabbable sequence, focus
\* moves to the first element of the sequence.
C8_Original ==
  (/\ HandledTab
   /\ sequenceOf(hist.trap) # <<>>
   /\ deepestActiveElement(Undefined, hist.at) \notin Range(sequenceOf(hist.trap)))
  => focus = Head(sequenceOf(hist.trap))

\* C8 (amended): the same, for a focused element that is not an audio, video
\* or iframe element and carries no controls attribute; with or without
\* Shift the first element is focused and recorded as currentFocus, and the
\* default action is prevented.
C8_OutsideSequence ==
  (/\ HandledTab
   /\ sequenceOf(hist.trap) # <<>>
   /\ deepestActiveElement(Undefined, hist.at) \notin Range(sequenceOf(hist.trap))
   /\ ~possiblyHasTabbableChildren(deepestActiveElement(Undefined, hist.at)))
  => /\ focus = Head(sequenceOf(hist.trap))
     /\ traps[hist.trap].currentFocus = Head(sequenceOf(hist.trap))
     /\ hist.prevented

\* Shift+Tab pressed on an element of another root: the first element of the
\* sequence got focus, not the last.
C8_Witness ==
  /\ HandledTab /\ hist.shift
  /\ Len(sequenceOf(hist.trap)) >= 2
  /\ hist.at # Body
  /\ hist.at \notin Range(sequenceOf(hist.trap))
  /\ ~possiblyHasTabbableChildren(hist.at)
  /\ focus = Head(sequenceOf(hist.trap))

\* C9: for an active trap whose root has no tabbable element, a Tab or
\* Shift+Tab key-down pressed while body holds focus, and its deferred pass,
\* leave focus on body and raise no error.
C9_EmptyRoot ==
  (/\ hist.op \in {"keydown", "timer"}
   /\ hist.trap # NoTrap /\ isActive(hist.trap)
   /\ sequenceOf(hist.trap) = <<>>
   /\ hist.at = Body)
  => focus = Body /\ ~hist.threw

\* Shift+Tab on body under a trap with an empty root: handled, prevented.
C9_Witness ==
  /\ HandledTab /\ hist.shift /\ hist.prevented
  /\ sequenceOf(hist.trap) = <<>>
  /\ hist.at = Body
  /\ focus = Body

\* C10: on a focus-in event handled by the active trap, if the element
\* focused lies outside the root, the trap focuses the first element of the
\* tabbable sequence when tabDirection is forward and the last when it is
\* backward and records it as currentFocus; if it lies inside the root, it
\* keeps focus.
C10_FocusInReset ==
  (hist.op = "focusin" /\ hist.trap # NoTrap)
  => IF focusWithin(traps[hist.trap].rootElement, hist.at)
     THEN focus = hist.at
     ELSE sequenceOf(hist.trap) # <<>> =>
            /\ focus = (IF traps[hist.trap].tabDirection = "forward"
                        THEN Head(sequenceOf(hist.trap))
                        ELSE Last(sequenceOf(hist.trap)))
            /\ traps[hist.trap].currentFocus = focus

\* Focus went outside the root while tabDirection was backward: the last
\* element of the sequence got focus.
C10_Witness ==
  /\ hist.op = "focusin" /\ hist.trap # NoTrap
  /\ traps[hist.trap].tabDirection = "backward"
  /\ ~focusWithin(traps[hist.trap].rootElement, hist.at)
  /\ Len(sequenceOf(hist.trap)) >= 2
  /\ focus = Last(sequenceOf(hist.trap))

\* C11: a trap that is in the trap stack but not topmost does not react to a
\* Tab key-down or a focus-in event: its handlers leave every trap's fields,
\* the focused element, the default action and the timers as they are,
\* whatever element holds focus and with or without Shift.
C11_DormantTrapIgnores ==
  \A i \in 1..(Len(trapStack) - 1) :
     \A f \in {Body} \cup Focusable :
        /\ \A shiftKey \in BOOLEAN :
              handleKeyDown(trapStack[i], "Tab", shiftKey, World(f, timers))
                 = World(f, timers)
        /\ handleFocusIn(trapStack[i], World(f, timers)) = World(f, timers)

\* A Shift+Tab was handled with a second trap below the topmost one: the
\* topmost trap is backward, the one below is still forward.
C11_Witness ==
  /\ Len(trapStack) = 2
  /\ HandledTab /\ hist.shift
  /\ hist.trap = trapStack[2]
  /\ traps[trapStack[2]].tabDirection = "backward"
  /\ traps[trapStack[1]].tabDirection = "forward"

\* C12 (as stated): every Tab key-down handled by the active trap has its
\* default action prevented (here for focused elements the trap does not
\* cede to).
C12_Original ==
  (HandledTab /\ ~possiblyHasTabbableChildren(deepestActiveElement(Undefined, hist.at)))
  => hist.prevented

\* C13: a start() that is not a no-op appends the trap to the trap stack and
\* its root to the root-element stack, emits one 'focus-trap-start', attaches
\* the trap's listeners and sets initialFocus and currentFocus to the deepest
\* focused element, changing no other trap.
C13_StartEffects ==
  /\ \A t \in TrapIds :
        ~startReturns(t, Registry) =>
           /\ start(t, FALSE, Registry).trapStack = Append(trapStack, t)
           /\ start(t, FALSE, Registry).rootElementStack =
                 Append(rootElementStack, traps[t].rootElement)
           /\ start(t, FALSE, Registry).emitted = <<"focus-trap-start">>
           /\ Range(start(t, FALSE, Registry).listeners) = Range(listeners) \cup {t}
           /\ start(t, FALSE, Registry).traps[t].initialFocus
                 = deepestActiveElement(Undefined, focus)
           /\ start(t, FALSE, Registry).traps[t].currentFocus
                 = deepestActiveElement(Undefined, focus)
           /\ \A u \in TrapIds \ {t} : start(t, FALSE, Registry).traps[u] = traps[u]
  /\ (hist.op = "start" /\ ~hist.noop /\ hist.emitted = <<"focus-trap-start">>) =>
        /\ Last(trapStack) = hist.trap
        /\ Last(rootElementStack) = traps[hist.trap].rootElement
        /\ hist.trap \in Range(listeners)
        /\ traps[hist.trap].initialFocus = deepestActiveElement(Undefined, focus)
        /\ traps[hist.trap].currentFocus = deepestActiveElement(Undefined, focus)

\* A second trap was started while an element held focus.
C13_Witness ==
  /\ hist.op = "start" /\ ~hist.noop /\ hist.emitted = <<"focus-trap-start">>
  /\ Len(trapStack) = 2 /\ Len(rootElementStack) = 2
  /\ Last(trapStack) = hist.trap
  /\ focus # Body
  /\ traps[hist.trap].currentFocus = focus

\* C14: after stop() on a trap of the trap stack, the trap is not in the
\* trap stack, its root is not in the root-element stack, currentFocus and
\* initialFocus are cleared, its listeners are detached and isActive() is
\* false.
C14_StopEffects ==
  /\ \A t \in Range(trapStack) :
        /\ t \notin Range(stop(t, Registry).trapStack)
        /\ traps[t].rootElement \notin Range(stop(t, Registry).rootElementStack)
        /\ stop(t, Registry).traps[t].currentFocus = Undefined
        /\ stop(t, Registry).traps[t].initialFocus = Undefined
        /\ t \notin Range(stop(t, Registry).listeners)
        /\ ~isActiveIn(stop(t, Registry).trapStack, t)
  /\ (hist.op = "stop" /\ ~hist.noop) =>
        /\ hist.trap \notin Range(trapStack)
        /\ traps[hist.trap].rootElement \notin Range(rootElementStack)
        /\ traps[hist.trap].currentFocus = Undefined
        /\ traps[hist.trap].initialFocus = Undefined
        /\ hist.trap \notin Range(listeners)
        /\ ~isActive(hist.trap)

\* The topmost of two started traps was stopped; the other remains.
C14_Witness ==
  /\ hist.op = "stop" /\ ~hist.noop
  /\ Len(trapStack) = 1
  /\ hist.trap \notin Range(trapStack)
  /\ hist.trap \notin Range(listeners)
  /\ hist.emitted = <<"focus-trap-end">>

\* C15 (as stated): the root-element stack is exactly the set of the
\* rootElements of the traps in the trap stack.
C15_Original ==
  Range(rootElementStack) = {traps[t].rootElement : t \in Range(trapStack)}

\* C16: start() on a trap that is already in the trap stack changes
\* nothing: both stacks, the listeners and every trap's fields stay as they
\* are and nothing is emitted.
C16_StartTwice ==
  /\ \A t \in Range(trapStack) :
        \A stopsInListener \in BOOLEAN : start(t, stopsInListener, Registry) = Registry
  /\ (hist.op = "start" /\ hist.noop) => hist.emitted = <<>>

\* A started trap was started again after focus had moved: its initialFocus
\* is still the element of the first start().
C16_Witness ==
  /\ hist.op = "start" /\ hist.noop
  /\ hist.trap \in Range(trapStack)
  /\ traps[hist.trap].initialFocus # Undefined
  /\ traps[hist.trap].initialFocus # focus

\* C17 (as stated): stop() on a trap that is not in the trap stack leaves
\* the trap stack, the root-element stack and the active status of every
\* other trap unchanged.
C17_Original ==
  \A t \in TrapIds \ Range(trapStack) :
     /\ stop(t, Registry).trapStack = trapStack
     /\ stop(t, Registry).rootElementStack = rootElementStack
     /\ \A u \in TrapIds \ {t} : isActiveIn(stop(t, Registry).trapStack, u) = isActive(u)

\* C18: constructing a Trap with a null or undefined rootElement throws,
\* creates no trap and leaves the trap stack and the root-element stack as
\* they are, whatever they hold.
C18_ConstructWithoutRoot ==
  /\ \A rootElement \in {Null, Undefined} :
        /\ constructor(rootElement, Registry).threw
        /\ constructor(rootElement, Registry).traps = traps
        /\ constructor(rootElement, Registry).trapStack = trapStack
        /\ constructor(rootElement, Registry).rootElementStack = rootElementStack
  /\ \A rootElement \in Roots : ~constructor(rootElement, Registry).threw
  /\ (hist.op = "construct" /\ hist.threw) => hist.trap = NoTrap

\* A construction without a root failed after one trap had been constructed:
\* there is still one trap.
C18_Witness ==
  /\ hist.op = "construct" /\ hist.threw
  /\ Len(traps) = 1

\* C19 (as stated): after a key-up the tabDirection of every trap is
\* forward.
C19_Original ==
  hist.op = "keyup" => \A t \in TrapIds : traps[t].tabDirection = "forward"

\* C20 (as stated): after a start(), key-down, focus-in or deferred pass
\* handled by a trap of the trap stack, its currentFocus is the deepest
\* focused element the handling observed or a member of the root's tabbable
\* sequence.
C20_Original ==
  \A t \in Range(trapStack) :
     (hist.trap = t /\ hist.op \in {"start", "keydown", "focusin", "timer"} /\ ~hist.noop)
     => traps[t].currentFocus \in {Last(ActiveChains[hist.at]), Last(ActiveChains[focus])}
                                    \cup Range(sequenceOf(t))

\* C20 (amended): whenever the currentFocus of a trap of the trap stack is
\* written, the value is undefined (the first element of an empty sequence),
\* the deepest focused element observed in that handling, or a member of the
\* root's tabbable sequence; it is never an element outside both.
C20_Step ==
  \A t \in TrapIds :
     (t \in Range(trapStack') /\ traps'[t].currentFocus # traps[t].currentFocus)
     => traps'[t].currentFocus \in {Undefined, Last(ActiveChains[focus]),
                                     Last(ActiveChains[focus'])} \cup Range(sequenceOf(t))

C20_CurrentFocus == [][C20_Step]_vars

\* A Tab handled by a trap whose sequence is empty left its currentFocus
\* undefined.
C20_Witness ==
  /\ HandledTab
  /\ hist.trap \in Range(trapStack)
  /\ sequenceOf(hist.trap) = <<>>
  /\ traps[hist.trap].currentFocus = Undefined

\* The fields of trap t that a dormant trap keeps, compared with those in ts.
keepsState(t, ts) ==
  /\ ts[t].rootElement = traps[t].rootElement
  /\ ts[t].initialFocus = traps[t].initialFocus
  /\ ts[t].currentFocus = traps[t].currentFocus

\* C21: while a trap is in the trap stack but not topmost, no key-down,
\* key-up, focus-in or deferred pass and no construction, start() or stop()
\* of another trap changes its rootElement, initialFocus or currentFocus; the
\* start() that makes it dormant leaves them too, and the stop() of the trap
\* above it makes it active with the same fields.
C21_DormantKeepsState ==
  /\ \A t \in Range(trapStack) :
        ~isActive(t) =>
          /\ \A shiftKey \in BOOLEAN, inner \in {FALSE, hasNativeControls(focus)} :
                keepsState(t, defaultAction(shiftKey, inner,
                                dispatchKeyDown(listeners, "Tab", shiftKey,
                                                World(focus, timers))).traps)
          /\ keepsState(t, dispatchKeyDown(listeners, "Shift", FALSE,
                                           World(focus, timers)).traps)
          /\ keepsState(t, dispatchKeyUp(listeners, World(focus, timers)).traps)
          /\ \A el \in Focusable : keepsState(t, elementFocus(el, World(focus, timers)).traps)
          /\ timers # <<>> =>
                keepsState(t, resetFocus(Head(timers).trap, World(focus, Tail(timers))).traps)
          /\ \A u \in TrapIds \ {t} : keepsState(t, stop(u, Registry).traps)
          /\ \A rootElement \in Roots \cup {Null, Undefined} :
                Len(traps) < MaxTraps => keepsState(t, constructor(rootElement, Registry).traps)
  /\ \A t \in Range(trapStack) :
        \A u \in TrapIds \ {t}, stopsInListener \in BOOLEAN :
           keepsState(t, start(u, stopsInListener, Registry).traps)
  /\ Len(trapStack) >= 2 =>
        /\ isActiveIn(stop(Last(trapStack), Registry).trapStack,
                      trapStack[Len(trapStack) - 1])
        /\ keepsState(trapStack[Len(trapStack) - 1], stop(Last(trapStack), Registry).traps)
  /\ \A t \in resumed : isActive(t)

\* The trap above was stopped after focus had moved inside its root: the
\* trap below is active again and its currentFocus is still the element it
\* held when it went dormant.
C21_Witness ==
  /\ hist.op = "stop" /\ ~hist.noop
  /\ resumed # {}
  /\ \A t \in resumed :
        /\ isActive(t)
        /\ traps[t].currentFocus \notin {Undefined, Null, focus}
        /\ traps[t].initialFocus = traps[t].currentFocus
        /\ ~focusWithin(traps[t].rootElement, focus)

\* C22: when a listener of the notification start() emits calls stop() on
\* the starting trap, then after start() returns the trap is in neither
\* stack, both stacks are as they were before start(), and isActive() of
\* every trap is true exactly of the last-inserted member of the trap stack.
C22_ReentrantStop ==
  /\ \A t \in TrapIds :
        ~startReturns(t, Registry) =>
          /\ ~SetHas(start(t, TRUE, Registry).trapStack, t)
          /\ ~SetHas(start(t, TRUE, Registry).rootElementStack, traps[t].rootElement)
          /\ start(t, TRUE, Registry).trapStack = trapStack
          /\ start(t, TRUE, Registry).rootElementStack = rootElementStack
          /\ \A u \in TrapIds :
                isActiveIn(start(t, TRUE, Registry).trapStack, u)
                  <=> (SetDelete(inserted, t) # <<>> /\ Last(SetDelete(inserted, t)) = u)
  /\ (hist.op = "start" /\ hist.emitted = <<"focus-trap-start", "focus-trap-end">>) =>
        /\ ~SetHas(trapStack, hist.trap)
        /\ ~SetHas(rootElementStack, traps[hist.trap].rootElement)
        /\ \A u \in TrapIds : isActive(u) <=> (inserted # <<>> /\ Last(inserted) = u)

\* A trap was stopped from a listener of its own start() while another trap
\* was active: the other trap is still the only member of the stack.
C22_Witness ==
  /\ hist.op = "start" /\ ~hist.noop
  /\ hist.emitted = <<"focus-trap-start", "focus-trap-end">>
  /\ Len(trapStack) = 1
  /\ Last(trapStack) # hist.trap
  /\ isActive(Last(trapStack))

\* No element occurs twice in seq.
NoDuplicates(seq) == \A i \in 1..Len(seq) : \A j \in 1..Len(seq) : seq[i] = seq[j] => i = j

\* The explicit tabindex of an element, 0 when it has none or one that is
\* not a number.
tabindexOrZero(d, el) == IF Number(d[el].tabindex).nan THEN 0 ELSE Number(d[el].tabindex).n

C26_Original ==
  /\ \A root \in TabRoots :
        \A el \in Range(getTabbableElements(page, root)) :
           \A a \in Ancestors[el] : ~page[a].inert
  /\ \A i \in 1..Len(enumerated) :
        \A el \in Range(enumerated[i].yielded) : \A a \in Ancestors[el] : ~page[a].inert

\* An element the other rules of the classifier do not exclude.
otherwiseEligible(d, el) ==
  /\ ~d[el].disabled
  /\ ~closestInert(d, el)
  /\ isVisible(d[el])
  /\ ~Number(d[el].tabindex).nan /\ Number(d[el].tabindex).n >= 0
  /\ ~(d[el].tag = "input" /\ d[el].type = "radio" /\ ~d[el].checked)

\* C27 (as stated): an anchor or area without href is not tabbable, even
\* with a non-negative tabindex; an otherwise eligible anchor or area with an
\* empty href is tabbable.
C27_Original ==
  /\ \A el \in Elements :
        page[el].tag \in {"a", "area"} =>
          /\ page[el].href = NoAttr => ~isTabbable(page, el)
          /\ (page[el].href = "" /\ otherwiseEligible(page, el)) => isTabbable(page, el)
  /\ (classified.el # Null /\ page[classified.el].tag \in {"a", "area"}) =>
        /\ page[classified.el].href = NoAttr => ~classified.tabbable
        /\ (page[classified.el].href = "" /\ otherwiseEligible(page, classified.el))
             => classified.tabbable

lastOrNone(chain) == IF chain = <<>> THEN Null ELSE Last(chain)

C30_SortedByTabindex ==
  /\ \A root \in TabRoots :
        LET seq == getTabbableElements(page, root)
            traversal == walk(page, root, root, NewWalk).tabbableElements
        IN /\ Range(seq) = Range(traversal)
           /\ Len(seq) = Len(traversal)
           /\ NoDuplicates(traversal)
           /\ \A i \in 1..Len(seq) : \A j \in (i + 1)..Len(seq) :
                 /\ tabindexOrZero(page, seq[i]) >= tabindexOrZero(page, seq[j])
                 /\ tabindexOrZero(page, seq[i]) = tabindexOrZero(page, seq[j])
                    => findIndex(traversal, seq[i]) < findIndex(traversal, seq[j])
  /\ \A k \in 1..Len(enumerated) :
        \A i \in 1..Len(enumerated[k].yielded) : \A j \in (i + 1)..Len(enumerated[k].yielded) :
           tabindexOrZero(page, enumerated[k].yielded[i])
             >= tabindexOrZero(page, enumerated[k].yielded[j])

\* Buttons with tabindex 1, 3 and 1 were enumerated: the one with 3 came
\* first and the other two kept their order.
C30_Witness ==
  /\ page["a1"].tabindex = Present(<<"1">>)
  /\ page["vid"].tabindex = Present(<<"3">>)
  /\ page["a3"].tabindex = Present(<<"1">>)
  /\ enumerated # <<>>
  /\ Last(enumerated).root = "rootA"
  /\ Last(enumerated).yielded = <<"vid", "a1", "a3">>

\* One of the exclusion rules of the classifier applies to the element: a
\* tabindex that is not a number or is <= -1, disabled, inert on the element
\* or an ancestor, an unchecked radio input, not visible.
excluded(d, el) ==
  \/ d[el].tabindex.present
       /\ (Number(d[el].tabindex).nan \/ Number(d[el].tabindex).n <= -1)
  \/ d[el].disabled
  \/ \E a \in TreeAncestors[el] : d[a].inert
  \/ d[el].tag = "input" /\ d[el].type = "radio" /\ ~d[el].checked
  \/ d[el].visibility = "hidden" \/ d[el].display = "none"

reachesOverflowRule(d, el) ==
  /\ ~excluded(d, el)
  /\ d[el].tag \notin {"a", "area", "audio", "video", "button", "input", "select", "textarea",
                        "summary", "iframe", "object", "embed"}
  /\ ~d[el].tabindex.present
  /\ d[el].contenteditable = NoAttr

\* Scrollable overflow as the rule states it: scroll on an axis, or auto on
\* an axis whose content overflows the box.
scrollableOverflow(e) ==
  \/ e.overflowY = "scroll" \/ e.overflowX = "scroll"
  \/ e.overflowY = "auto" /\ e.overflowingY
  \/ e.overflowX = "auto" /\ e.overflowingX

\* C32 (as stated): an element matched by none of the earlier rules is
\* tabbable if and only if overflow-y or overflow-x is scroll, or either is
\* auto and the content overflows the box on that axis, for every combination
\* of the values of the two axes.
C32_Original ==
  /\ \A el \in Elements :
        reachesOverflowRule(page, el) => (isTabbable(page, el) <=> scrollableOverflow(page[el]))
  /\ (classified.el # Null /\ reachesOverflowRule(page, classified.el)) =>
        (classified.tabbable <=> scrollableOverflow(page[classified.el]))

\* An audio, video or iframe element, or one with the controls attribute.
ownsTabStops(el) ==
  el \in Elements /\ (Dom[el].tag \in {"audio", "video", "iframe"} \/ Dom[el].controls)

\* C33: when the active trap handles a Tab key-down, with or without Shift,
\* while the deepest focused element is an audio, video or iframe element or
\* carries a controls attribute, its handler moves no focus, leaves
\* currentFocus as it is and does not prevent the default action.
C33_CedesToControls ==
  /\ (Handler # NoTrap /\ ownsTabStops(deepestActiveElement(Undefined, focus))) =>
        \A shiftKey \in BOOLEAN :
           LET w == dispatchKeyDown(listeners, "Tab", shiftKey, World(focus, timers))
           IN /\ w.focus = focus
              /\ w.traps[Handler].currentFocus = traps[Handler].currentFocus
              /\ ~w.prevented
              /\ ~w.threw
  /\ (HandledTab /\ ownsTabStops(deepestActiveElement(Undefined, hist.at))) => ~hist.prevented

\* Tab was pressed on the video with controls inside the trap's root: the
\* key was left to the platform, which moved between the controls, and the
\* video kept focus.
C33_Witness ==
  /\ HandledTab /\ ~hist.shift
  /\ hist.at = "vid"
  /\ focusWithin(traps[hist.trap].rootElement, hist.at)
  /\ ~hist.prevented
  /\ focus = "vid"
  /\ traps[hist.trap].currentFocus = "vid"

\* C34: the chain of active elements, from any element or from the focused
\* element of the document, is finite and without repetition; each element
\* but the last hosts an open shadow root and is followed by the element
\* focused inside that shadow root; the last element has no shadow root, a
\* closed one, or one with no focused element.
C34_ChainDescends ==
  \A el \in Elements \cup {Undefined} :
     LET chain == activeElements(el, focus)
     IN /\ Len(chain) <= Cardinality(ShadowRoots) + 1
        /\ NoDuplicates(chain)
        /\ chain # <<>>
        /\ Head(chain) = (IF el = Undefined THEN activeElementOf(Document, focus) ELSE el)
        /\ \A i \in 1..(Len(chain) - 1) :
              /\ attachedShadow(chain[i]) # Null
              /\ shadowMode(attachedShadow(chain[i])) = "open"
              /\ chain[i + 1] = activeElementOf(attachedShadow(chain[i]), focus)
              /\ chain[i] = shadowHost(getRootNode(chain[i + 1]))
        /\ \/ attachedShadow(Last(chain)) = Null
           \/ shadowMode(attachedShadow(Last(chain))) = "closed"
           \/ activeElementOf(attachedShadow(Last(chain)), focus) = Null

\* A trap was started while a button two shadow roots deep held focus: the
\* chain is the outer host, the inner host, the button, and the trap took the
\* button for its currentFocus; from the host of the closed shadow root the
\* chain is the host alone.
C34_Witness ==
  /\ focus = "i1"
  /\ activeElements(Undefined, focus) = <<"outer", "inner", "i1">>
  /\ activeElements("chost", "c1") = <<"chost">>
  /\ hist.op = "start" /\ ~hist.noop
  /\ traps[hist.trap].currentFocus = "i1"

\* C35 (as stated): in every reachable state a trap has its listeners
\* attached if and only if it is a member of the trap stack.
C35_Original == \A t \in TrapIds : SetHas(listeners, t) <=> SetHas(trapStack, t)

\* C36 (as stated): every 'focus-trap-end' of a trap follows a
\* 'focus-trap-start' of that trap with no other 'focus-trap-end' of it in
\* between.  A trap is in the trap stack exactly when its last notification
\* was a 'focus-trap-start', so a stop() of a trap that is not in the stack
\* emits nothing.
C36_Original ==
  /\ \A t \in TrapIds : ~SetHas(trapStack, t) => stop(t, Registry).emitted = <<>>
  /\ (hist.op = "stop" /\ hist.noop) => hist.emitted = <<>>

\* C37: the trap stack is in the order of activation: a trap that was
\* started before another, stopped while the other stayed in the stack and
\* started again is the last member of the stack and the active trap, and
\* the other trap is in the stack and not active.
C37_ActivationOrder ==
  /\ \A i \in 1..(Len(trapStack) - 1) :
        LET t == trapStack[i]
            again == start(t, FALSE, stop(t, Registry))
        IN /\ again.trapStack = Append(SetDelete(trapStack, t), t)
           /\ isActiveIn(again.trapStack, t)
           /\ \A u \in Range(trapStack) \ {t} :
                 SetHas(again.trapStack, u) /\ ~isActiveIn(again.trapStack, u)
  /\ (hist.op = "start" /\ hist.restart /\ hist.emitted = <<"focus-trap-start">>) =>
        /\ ~hist.noop
        /\ Last(trapStack) = hist.trap
        /\ isActive(hist.trap)
        /\ \A u \in Range(trapStack) \ {hist.trap} : ~isActive(u)

\* T1.start(), T2.start(), T1.stop(), T1.start() on distinct roots: the stack
\* is T2, T1 and T1 is the active trap.
C37_Witness ==
  /\ hist.op = "start" /\ hist.restart /\ ~hist.noop
  /\ hist.trap = 1
  /\ trapStack = <<2, 1>>
  /\ traps[1].rootElement # traps[2].rootElement
  /\ isActive(1) /\ ~isActive(2)

C39_Original ==
  /\ \A i \in 1..Len(timers) :
        ~isActive(timers[i].trap) =>
           LET w == resetFocus(timers[i].trap, World(focus, timers))
           IN /\ w.focus = focus
              /\ w.traps[timers[i].trap].currentFocus = traps[timers[i].trap].currentFocus
              /\ ~SetHas(trapStack, timers[i].trap) =>
                    w.traps[timers[i].trap].currentFocus = Undefined
  /\ (hist.op = "timer" /\ hist.noop) =>
        /\ focus = hist.at
        /\ ~SetHas(trapStack, hist.trap) => traps[hist.trap].currentFocus = Undefined

\* C40 (as stated): a deferred pass scheduled by a Shift+Tab key-down that
\* finds focus outside the root of its trap refocuses the last element of the
\* tabbable sequence, whatever key-up events were handled since the
\* key-down.
C40_Original ==
  (/\ hist.op = "timer" /\ ~hist.noop /\ hist.shift
   /\ ~focusWithin(traps[hist.trap].rootElement, hist.at)
   /\ sequenceOf(hist.trap) # <<>>)
  => focus = Last(sequenceOf(hist.trap))

====
